---- MODULE Spec2Model ----
(***************************************************************************)
(* gotestwatch: watch a Go module and re-run the tests affected by the     *)
(* files that change.  The model follows src/main.go (the version with     *)
(* debouncing, lines 197-447): the package snapshot read from `go list`,   *)
(* the reverse dependency map, the resolution of a batch of changed file   *)
(* names to the import paths handed to `go test`, and the dispatch loop    *)
(* that reads the watcher's event channel.                                 *)
(*                                                                         *)
(* Strings are sequences of one-character strings, so that HasPrefix,      *)
(* filepath.Split, TrimSuffix and the lexicographic sort are computed.     *)
(* A *Package pointer is modelled by the package's Dir, the key under      *)
(* which loadPackages stores the one Package object of that directory.     *)
(***************************************************************************)
EXTENDS Naturals, Sequences, FiniteSets

VARIABLES
    pkgs,       \* run: pkgs, map Dir -> Package (loadPackages)
    revdeps,    \* run: revdeps, map import path -> list of *Package
    chan,       \* w.Events: the events the watcher has emitted and the loop has not received
    pc,         \* where the loop of run() is: "wait", "debounce" or "cmd"
    event,      \* run: the event taken by `for event := range w.Events`
    events,     \* debounceFor: events
    deadline,   \* debounceFor: the time at which `deadline` (time.After) fires
    now,        \* the clock, in ticks
    filenames,  \* run: filenames, the batch handed to runAllTests
    paths,      \* runAllTests: paths, the arguments of `go test`
    running,    \* number of `go test` processes started and not yet finished
    msg,        \* the last terminal message printed for a batch
    emitted,    \* history: number of events the watcher has emitted
    delivered,  \* history: the events received from w.Events, in order
    started,    \* history: the time of the last call of debounceFor
    batches,    \* history: the batches handed to runAllTests, in order
    printed,    \* history: number of terminal messages printed (none / passed / failed)
    errs,       \* w.Errors: errors the watcher has sent and the goroutine has not received
    exited      \* os.Exit(1) has been called: the process is gone

vars == <<pkgs, revdeps, chan, pc, event, events, deadline, now, filenames,
          paths, running, msg, emitted, delivered, started, batches, printed,
          errs, exited>>

----------------------------------------------------------------------------
(* Bounds of the model *)

\* longest batch of changed files drawn as a resolver input
MaxBatch == 2
\* number of events the watcher emits in a run of the dispatch loop
MaxEvents == 3
\* the clock stops here
MaxTime == 4

\* const debouncePeriod = 200 * time.Millisecond; one tick of the clock is 100ms
debouncePeriod == 2

----------------------------------------------------------------------------
(* Strings *)

\* byte value of a character (ASCII), as compared by slices.Sort and by <
Ord(c) ==
    CASE c = "/" -> 47
      [] c = "a" -> 97
      [] c = "b" -> 98
      [] c = "c" -> 99
      [] c = "f" -> 102
      [] c = "i" -> 105
      [] c = "m" -> 109
      [] c = "p" -> 112
      [] c = "t" -> 116
      [] c = "x" -> 120
      [] c = "z" -> 122

\* strings.HasPrefix(s, prefix)
HasPrefix(s, prefix) ==
    /\ Len(prefix) <= Len(s)
    /\ SubSeq(s, 1, Len(prefix)) = prefix

\* strings.TrimSuffix(s, "/")
TrimSuffix(s) ==
    IF Len(s) > 0 /\ s[Len(s)] = "/" THEN SubSeq(s, 1, Len(s) - 1) ELSE s

\* index of the last "/" of path, 0 when there is none
LastSlash(path) ==
    LET idx == {i \in 1..Len(path) : path[i] = "/"}
    IN  IF idx = {} THEN 0 ELSE CHOOSE i \in idx : \A j \in idx : j <= i

\* filepath.Split(path): the directory part (with its final "/") and the file part
SplitDir(path) == SubSeq(path, 1, LastSlash(path))
SplitFile(path) == SubSeq(path, LastSlash(path) + 1, Len(path))

\* s < t for strings: byte-wise lexicographic order
RECURSIVE StrLess(_, _)
StrLess(s, t) ==
    IF Len(t) = 0 THEN FALSE
    ELSE IF Len(s) = 0 THEN TRUE
    ELSE IF Ord(Head(s)) < Ord(Head(t)) THEN TRUE
    ELSE IF Ord(Head(s)) > Ord(Head(t)) THEN FALSE
    ELSE StrLess(Tail(s), Tail(t))

----------------------------------------------------------------------------
(* Slices *)

\* slices.Contains(s, x)
Contains(s, x) == \E i \in 1..Len(s) : s[i] = x

\* the elements of a slice
Elems(s) == {s[i] : i \in 1..Len(s)}

\* insert x in the sorted slice s
RECURSIVE InsertSorted(_, _)
InsertSorted(s, x) ==
    IF Len(s) = 0 THEN <<x>>
    ELSE IF StrLess(x, Head(s)) THEN <<x>> \o s
    ELSE <<Head(s)>> \o InsertSorted(Tail(s), x)

\* slices.Sort(paths)
RECURSIVE Sort(_)
Sort(s) == IF Len(s) = 0 THEN <<>> ELSE InsertSorted(Sort(Tail(s)), Head(s))

\* slices.Compact(paths): replaces each run of equal elements by one of them
RECURSIVE Compact(_)
Compact(s) ==
    IF Len(s) <= 1 THEN s
    ELSE IF s[1] = s[2] THEN Compact(Tail(s))
    ELSE <<Head(s)>> \o Compact(Tail(s))

\* the orders in which a Go map with the key set S can be ranged over
Orders(S) ==
    {o \in [1..Cardinality(S) -> S] : \A i, j \in 1..Cardinality(S) : o[i] = o[j] => i = j}

----------------------------------------------------------------------------
(* The package snapshot *)

\* map lookup m[k]: the zero value (a nil slice) when k is not a key
Lookup(m, k) == IF k \in DOMAIN m THEN m[k] ELSE <<>>

\* map assignment m[k] = v
Put(m, k, v) == [x \in (DOMAIN m) \cup {k} |-> IF x = k THEN v ELSE m[x]]

\* type Package, as decoded from one record of `go list -json ./...`.
\* kind tells which test files the package has: "none", "t" (TestGoFiles),
\* "x" (XTestGoFiles) or "tx" (both).
Package(name, deps, kind, testImports, xtestImports) ==
    [ Dir            |-> <<"/", name>>,
      ImportPath     |-> <<"m", "/", name>>,
      Deps           |-> deps,
      GoFiles        |-> << <<"p">> >>,
      IgnoredGoFiles |-> << <<"i">> >>,
      TestGoFiles    |-> IF kind \in {"t", "tx"} THEN << <<"t">> >> ELSE <<>>,
      XTestGoFiles   |-> IF kind \in {"x", "tx"} THEN << <<"x">> >> ELSE <<>>,
      EmbedFiles     |-> <<>>,
      TestImports    |-> testImports,
      XTestImports   |-> xtestImports,
      Module         |-> [Path |-> <<"m">>] ]

\* import paths of the three packages of the module m, and of a package outside it
ImpA == <<"m", "/", "a">>
ImpB == <<"m", "/", "b">>
ImpC == <<"m", "/", "c">>
ImpFmt == <<"f", "m", "t">>

\* loadPackages: pkgs[pkg.Dir] = pkg for the records of a three-package module.
\* b may import a, c may import b (Deps is the transitive closure, sorted, as go
\* list reports it); every package imports fmt.  xa: XTestImports of a, tb:
\* TestImports of b, tc: TestImports of c.
loadPackages(bImportsA, cImportsB, ka, kb, kc, xa, tb, tc) ==
    LET a == Package("a", <<ImpFmt>>, ka, <<>>, xa)
        b == Package("b", <<ImpFmt>> \o (IF bImportsA THEN <<ImpA>> ELSE <<>>),
                     kb, tb, <<>>)
        c == Package("c", <<ImpFmt>>
                          \o (IF cImportsB /\ bImportsA THEN <<ImpA>> ELSE <<>>)
                          \o (IF cImportsB THEN <<ImpB>> ELSE <<>>),
                     kc, tc, <<>>)
    IN  [d \in {a.Dir, b.Dir, c.Dir} |->
            IF d = a.Dir THEN a ELSE IF d = b.Dir THEN b ELSE c]

\* the snapshots go list can report for such a module: a has no tests, tests, an
\* external test that imports a itself, or both kinds of test files; test imports
\* only where there are test files
Snapshots ==
    { loadPackages(p[1], p[2], p[3][1], p[4], p[5], p[3][2], p[6], p[7]) :
        p \in { q \in BOOLEAN \X BOOLEAN
                      \X { <<"none", <<>> >>, <<"t", <<>> >>, <<"x", <<ImpA>> >>,
                           <<"tx", <<>> >> }
                      \X {"none", "t"} \X {"none", "t"}
                      \X {<<>>, <<ImpA>>} \X {<<>>, <<ImpB>>} :
                  /\ q[6] # <<>> => q[4] = "t"
                  /\ q[7] # <<>> => q[5] = "t" } }

----------------------------------------------------------------------------
(* buildRevdeps *)

\* for _, dep := range pkg.Deps { if HasPrefix(dep, Module.Path) { append } }
RECURSIVE AddDeps(_, _, _)
AddDeps(rd, pkg, deps) ==
    IF Len(deps) = 0 THEN rd
    ELSE LET dep == Head(deps)
         IN  AddDeps(IF HasPrefix(dep, pkg.Module.Path)
                        THEN Put(rd, dep, Append(Lookup(rd, dep), pkg.Dir))
                        ELSE rd,
                     pkg, Tail(deps))

\* mutant of AddImports: the test imports are not recorded
AddImportsSkipped(rd, pkg, imps) == rd

\* for _, imp := range append(TestImports, XTestImports...) { if HasPrefix &&
\* !Contains(revdeps[imp], pkg) { append } }
RECURSIVE AddImports(_, _, _)
AddImports(rd, pkg, imps) ==
    IF Len(imps) = 0 THEN rd
    ELSE LET imp == Head(imps)
         IN  AddImports(IF /\ HasPrefix(imp, pkg.Module.Path)
                           /\ ~Contains(Lookup(rd, imp), pkg.Dir)
                           THEN Put(rd, imp, Append(Lookup(rd, imp), pkg.Dir))
                           ELSE rd,
                        pkg, Tail(imps))

\* the body of `for _, pkg := range pkgs`, over the packages in the order the map
\* is ranged over
RECURSIVE RangePkgs(_, _, _)
RangePkgs(ps, order, rd) ==
    IF Len(order) = 0 THEN rd
    ELSE LET pkg == ps[Head(order)]
         IN  RangePkgs(ps, Tail(order),
                       AddImports(AddDeps(rd, pkg, pkg.Deps), pkg,
                                  pkg.TestImports \o pkg.XTestImports))

\* buildRevdeps(pkgs), with `order` the iteration order of the map
buildRevdeps(ps, order) == RangePkgs(ps, order, <<>>)

----------------------------------------------------------------------------
(* testsToRun and runAllTests *)

\* len(pkg.TestGoFiles) == 0 && len(pkg.XTestGoFiles) == 0
NoTests(pkg) == Len(pkg.TestGoFiles) = 0 /\ Len(pkg.XTestGoFiles) = 0

\* slices.Contains(pkg.TestGoFiles, filename) || slices.Contains(pkg.XTestGoFiles, filename)
IsTestFile(pkg, filename) ==
    Contains(pkg.TestGoFiles, filename) \/ Contains(pkg.XTestGoFiles, filename)

\* mutant of allFunc: true as soon as one element satisfies f
allFuncAny(pkg, s) == \E i \in 1..Len(s) : IsTestFile(pkg, s[i])

\* allFunc(s, f) with f the test-file predicate of pkg
allFunc(pkg, s) == \A i \in 1..Len(s) : IsTestFile(pkg, s[i])

\* mutant of DeleteIgnored: the ignored files are kept
DeleteIgnoredKept(pkg, files) == files

\* slices.DeleteFunc(filenames, in pkg.IgnoredGoFiles)
DeleteIgnored(pkg, files) ==
    SelectSeq(files, LAMBDA f : ~Contains(pkg.IgnoredGoFiles, f))

\* testsToRun(pkg, revdeps, filenames): the packages (as Dirs) to run
testsToRun(pkg, rd, files) ==
    IF Len(rd) = 0 THEN <<>>
    ELSE LET fs == DeleteIgnored(pkg, files)
         IN  IF Len(fs) = 0 THEN <<>>
             ELSE IF allFunc(pkg, fs) THEN <<pkg.Dir>>
             ELSE Append(rd, pkg.Dir)

\* the directory under which runAllTests files a changed path
DirOf(path) == TrimSuffix(SplitDir(path))

\* mutant of byDir: every file is filed under the directory of the first one
byDirOfFirst(fnames) ==
    [d \in {DirOf(fnames[i]) : i \in {j \in 1..Len(fnames) : j = 1}} |->
        [i \in 1..Len(fnames) |-> SplitFile(fnames[i])]]

\* byDir, as built by the first loop of runAllTests
byDir(fnames) ==
    [d \in {DirOf(fnames[i]) : i \in 1..Len(fnames)} |->
        LET own == SelectSeq(fnames, LAMBDA f : DirOf(f) = d)
        IN  [i \in 1..Len(own) |-> SplitFile(own[i])]]

\* mutant of RangeByDir: an unknown directory ends the loop (break for continue)
RECURSIVE RangeByDirBreak(_, _, _, _)
RangeByDirBreak(ps, rd, groups, order) ==
    IF Len(order) = 0 THEN <<>>
    ELSE LET dir == Head(order)
         IN  IF dir \notin DOMAIN ps THEN <<>>
             ELSE testsToRun(ps[dir], Lookup(rd, ps[dir].ImportPath), groups[dir])
                  \o RangeByDirBreak(ps, rd, groups, Tail(order))

\* toRun, as built by `for dir, files := range byDir` in the given order
RECURSIVE RangeByDir(_, _, _, _)
RangeByDir(ps, rd, groups, order) ==
    IF Len(order) = 0 THEN <<>>
    ELSE LET dir == Head(order)
             rest == RangeByDir(ps, rd, groups, Tail(order))
         IN  IF dir \notin DOMAIN ps THEN rest
             ELSE testsToRun(ps[dir], Lookup(rd, ps[dir].ImportPath), groups[dir])
                  \o rest

\* mutant of DeleteNoTests: the packages without tests are kept
DeleteNoTestsKept(ps, toRun) == toRun

\* toRun after slices.DeleteFunc drops the packages without tests
DeleteNoTests(ps, toRun) == SelectSeq(toRun, LAMBDA d : ~NoTests(ps[d]))

\* paths[i] = pkg.ImportPath
ImportPaths(ps, toRun) == [i \in 1..Len(toRun) |-> ps[toRun[i]].ImportPath]

\* mutant of Unique: sorted, not compacted
UniqueSortedOnly(ps) == Sort(ps)

\* slices.Sort(paths); paths = slices.Compact(paths)
Unique(ps) == Compact(Sort(ps))

\* runAllTests up to `go test`: the paths handed to the executor, with `order` the
\* order in which byDir is ranged over
runAllTestsPaths(ps, rd, fnames, order) ==
    Unique(ImportPaths(ps, DeleteNoTests(ps, RangeByDir(ps, rd, byDir(fnames), order))))

----------------------------------------------------------------------------
(* The dispatch loop: run() from `for event := range w.Events` on *)

\* an fsnotify.Event; id and at (the number and the time of its emission) are
\* history fields the program does not read
Event(name, id, at) == [Name |-> name, id |-> id, at |-> at]

\* Name of each event of a slice
Names(evs) == [i \in 1..Len(evs) |-> evs[i].Name]

\* mutant of debounceForAppend: the event overwrites what was collected
debounceForAppendLast(evs, t) == <<t>>

\* debounceFor: events = append(events, t)
debounceForAppend(evs, t) == Append(evs, t)

\* run: filenames := []string{event.Name}, then append(filenames, event.Name)
\* for each event debounceFor returned
runFilenames(ev, evs) == <<ev.Name>> \o Names(evs)

\* the changed paths the watcher reports in a run of the loop: a file of a package
\* with tests and dependents, and a file of a directory that is no package
EventPaths == { <<"/", "a", "/", "p">>, <<"/", "z", "/", "p">> }

\* the watcher sends an event on w.Events
Notify ==
    /\ ~exited
    /\ emitted < MaxEvents
    /\ \E name \in EventPaths :
          chan' = Append(chan, Event(name, emitted + 1, now))
    /\ emitted' = emitted + 1
    /\ UNCHANGED <<pkgs, revdeps, pc, event, events, deadline, now, filenames,
                   paths, running, msg, delivered, started, batches,
                   printed, errs, exited>>

\* the loop is parked and a receive or the timer can wake it at once
LoopReady ==
    \/ pc = "wait" /\ chan # <<>>
    \/ pc = "debounce" /\ (chan # <<>> \/ now >= deadline)
    \/ pc = "run"

\* time passes; a goroutine that can run does so before the next tick.  The clock
\* stops at MaxTime, but not before a timer that is set has fired
Tick ==
    /\ ~exited
    /\ now < MaxTime \/ (pc = "debounce" /\ now < deadline)
    /\ ~LoopReady
    /\ now' = now + 1
    /\ UNCHANGED <<pkgs, revdeps, chan, pc, event, events, deadline, filenames,
                   paths, running, msg, emitted, delivered, started, batches,
                   printed, errs, exited>>

\* `for event := range w.Events` receives the first event of a batch and calls
\* debounceFor, which sets deadline := time.After(duration)
RangeEvents ==
    /\ ~exited
    /\ pc = "wait"
    /\ chan # <<>>
    /\ event' = Head(chan)
    /\ chan' = Tail(chan)
    /\ delivered' = Append(delivered, Head(chan))
    /\ events' = <<>>
    /\ deadline' = now + debouncePeriod
    /\ started' = now
    /\ pc' = "debounce"
    /\ UNCHANGED <<pkgs, revdeps, now, filenames, paths, running, msg, emitted,
                   batches, printed, errs, exited>>

\* mutant of debounceForRecv: each received event restarts the timer
debounceForRecvRestart ==
    /\ ~exited
    /\ pc = "debounce"
    /\ chan # <<>>
    /\ events' = Append(events, Head(chan))
    /\ chan' = Tail(chan)
    /\ delivered' = Append(delivered, Head(chan))
    /\ deadline' = now + debouncePeriod
    /\ UNCHANGED <<pkgs, revdeps, pc, event, now, filenames, paths,
                   running, msg, emitted, started, batches,
                   printed, errs, exited>>

\* debounceFor: case t := <-ch
debounceForRecv ==
    /\ ~exited
    /\ pc = "debounce"
    /\ chan # <<>>
    /\ events' = debounceForAppend(events, Head(chan))
    /\ chan' = Tail(chan)
    /\ delivered' = Append(delivered, Head(chan))
    /\ UNCHANGED <<pkgs, revdeps, pc, event, deadline, now, filenames, paths,
                   running, msg, emitted, started, batches,
                   printed, errs, exited>>

\* mutant of runAllTests: `go test` is started and not waited for
runAllTestsNoWait(fnames) ==
    \E order \in Orders(DOMAIN byDir(fnames)) :
        LET ps == runAllTestsPaths(pkgs, revdeps, fnames, order)
        IN  /\ paths' = ps
            /\ msg' = IF Len(ps) = 0 THEN "No affected tests to run" ELSE ""
            /\ printed' = IF Len(ps) = 0 THEN printed + 1 ELSE printed
            /\ pc' = "wait"
            /\ running' = IF Len(ps) = 0 THEN running ELSE running + 1
            /\ UNCHANGED <<pkgs, revdeps>>

\* mutant of runAllTests: testsToRun without slices.Clone, so that DeleteFunc
\* drops the packages without tests from the reverse index entries of the changed
\* packages themselves
runAllTestsInPlace(fnames) ==
    \E order \in Orders(DOMAIN byDir(fnames)) :
        LET ps == runAllTestsPaths(pkgs, revdeps, fnames, order)
            changed == {pkgs[d].ImportPath : d \in DOMAIN byDir(fnames) \cap DOMAIN pkgs}
        IN  /\ paths' = ps
            /\ IF Len(ps) = 0
                  THEN /\ msg' = "No affected tests to run"
                       /\ printed' = printed + 1
                       /\ pc' = "wait"
                       /\ running' = running
                  ELSE /\ msg' = ""
                       /\ printed' = printed
                       /\ pc' = "cmd"
                       /\ running' = running + 1
            /\ revdeps' = [k \in DOMAIN revdeps |->
                              IF k \in changed THEN DeleteNoTests(pkgs, revdeps[k])
                              ELSE revdeps[k]]
            /\ UNCHANGED pkgs

\* runAllTests(pkgs, revdeps, filenames) up to cmd.Run(): nothing to run, or
\* `go test paths...` is started and the loop waits for it
runAllTests(fnames) ==
    \E order \in Orders(DOMAIN byDir(fnames)) :
        LET ps == runAllTestsPaths(pkgs, revdeps, fnames, order)
        IN  /\ paths' = ps
            /\ IF Len(ps) = 0
                  THEN /\ msg' = "No affected tests to run"
                       /\ printed' = printed + 1
                       /\ pc' = "wait"
                       /\ running' = running
                  ELSE /\ msg' = ""
                       /\ printed' = printed
                       /\ pc' = "cmd"
                       /\ running' = running + 1
            /\ UNCHANGED <<pkgs, revdeps>>

\* mutant of debounceForDeadline: `break` for `return events`, which leaves the
\* select and not the for loop
debounceForDeadlineBreak ==
    /\ ~exited
    /\ pc = "debounce"
    /\ now >= deadline
    /\ UNCHANGED vars

\* debounceFor: case <-deadline: return events; run then builds filenames
debounceForDeadline ==
    /\ ~exited
    /\ pc = "debounce"
    /\ now >= deadline
    /\ filenames' = runFilenames(event, events)
    /\ batches' = Append(batches, <<event>> \o events)
    /\ pc' = "run"
    /\ UNCHANGED <<pkgs, revdeps, chan, event, events, deadline, now, paths,
                   running, msg, emitted, delivered, started, printed, errs, exited>>

\* run: the call runAllTests(pkgs, revdeps, filenames) for the batch just collected
runBatch ==
    /\ ~exited
    /\ pc = "run"
    /\ runAllTests(filenames)
    /\ UNCHANGED <<chan, event, events, deadline, now, filenames, emitted,
                   delivered, started, batches, errs, exited>>

\* mutant of cmdRun: run returns the error of a failed test run, which ends the
\* program
cmdRunFatal ==
    /\ ~exited
    /\ pc = "cmd"
    /\ \E err \in {"nil", "exit status 1"} :
          /\ msg' = IF err = "nil" THEN "Tests passed" ELSE "Tests failed"
          /\ exited' = (err # "nil")
    /\ running' = running - 1
    /\ printed' = printed + 1
    /\ pc' = "wait"
    /\ UNCHANGED <<pkgs, revdeps, chan, event, events, deadline, now, filenames,
                   paths, emitted, delivered, started, batches, errs>>

\* cmd.Run() returns: the tests passed (err == nil) or failed; run prints the
\* outcome and goes back to `range w.Events`
cmdRun ==
    /\ ~exited
    /\ pc = "cmd"
    /\ \E err \in {"nil", "exit status 1"} :
          msg' = IF err = "nil" THEN "Tests passed" ELSE "Tests failed"
    /\ running' = running - 1
    /\ printed' = printed + 1
    /\ pc' = "wait"
    /\ UNCHANGED <<pkgs, revdeps, chan, event, events, deadline, now, filenames,
                   paths, emitted, delivered, started, batches, errs, exited>>

\* the watcher sends an error on w.Errors; the goroutine exits on the first one it
\* receives, so one pending error is all that matters
NotifyError ==
    /\ ~exited
    /\ errs = 0
    /\ errs' = 1
    /\ UNCHANGED <<pkgs, revdeps, chan, pc, event, events, deadline, now, filenames,
                   paths, running, msg, emitted, delivered, started, batches,
                   printed, exited>>

\* mutant of ErrorsExit: the error is printed and the process goes on
ErrorsPrinted ==
    /\ ~exited
    /\ errs > 0
    /\ errs' = errs - 1
    /\ UNCHANGED <<pkgs, revdeps, chan, pc, event, events, deadline, now, filenames,
                   paths, running, msg, emitted, delivered, started, batches,
                   printed, exited>>

\* go func() { for err := range w.Errors { fmt.Printf(...); os.Exit(1) } }()
ErrorsExit ==
    /\ ~exited
    /\ errs > 0
    /\ errs' = errs - 1
    /\ exited' = TRUE
    /\ UNCHANGED <<pkgs, revdeps, chan, pc, event, events, deadline, now, filenames,
                   paths, running, msg, emitted, delivered, started, batches,
                   printed>>

\* the module of the example: core (a), api (b, imports a), cmd (c, imports b and
\* has no tests)
ExampleSnapshot == loadPackages(TRUE, TRUE, "t", "t", "none", <<>>, <<>>, <<>>)

\* the state of run() when it reaches `for event := range w.Events`
Init ==
    /\ pkgs = ExampleSnapshot
    /\ \E order \in Orders(DOMAIN pkgs) : revdeps = buildRevdeps(pkgs, order)
    /\ chan = <<>>
    /\ pc = "wait"
    /\ event = Event(<<>>, 0, 0)
    /\ events = <<>>
    /\ deadline = 0
    /\ now = 0
    /\ filenames = <<>>
    /\ paths = <<>>
    /\ running = 0
    /\ msg = ""
    /\ emitted = 0
    /\ delivered = <<>>
    /\ started = 0
    /\ batches = <<>>
    /\ printed = 0
    /\ errs = 0
    /\ exited = FALSE

Next ==
    \/ Notify
    \/ Tick
    \/ RangeEvents
    \/ debounceForRecv
    \/ debounceForDeadline
    \/ runBatch
    \/ cmdRun
    \/ NotifyError
    \/ ErrorsExit

Spec == Init /\ [][Next]_vars

\* the loop under fair scheduling: time passes, a goroutine that can receive from
\* a channel or from a fired timer does so, and the goroutine that ranges over
\* w.Errors runs
FairSpec ==
    /\ Spec
    /\ WF_vars(Tick)
    /\ WF_vars(debounceForRecv)
    /\ WF_vars(debounceForDeadline)
    /\ WF_vars(ErrorsExit)

----------------------------------------------------------------------------
(* The resolver on its own: every snapshot, every batch *)

\* the changed paths of a batch: files of the package a (production p, test t,
\* external test x, ignored i), the production file of b, and a file of a
\* directory that is no package
ResolvePaths ==
    { <<"/", "a", "/", f>> : f \in {"p", "t", "x", "i"} }
    \cup { <<"/", "b", "/", "p">>, <<"/", "z", "/", "p">> }

\* the batches of 1..MaxBatch changed paths
Batches == UNION { [1..n -> ResolvePaths] : n \in 1..MaxBatch }

\* debounceFor is about to return a batch: the events of the batch were emitted at
\* time 0 and received, and the deadline has fired
InitResolve ==
    /\ pkgs \in Snapshots
    /\ \E order \in Orders(DOMAIN pkgs) : revdeps = buildRevdeps(pkgs, order)
    /\ \E batch \in Batches :
          /\ event = Event(batch[1], 1, 0)
          /\ events = [i \in 1..(Len(batch) - 1) |-> Event(batch[i + 1], i + 1, 0)]
          /\ emitted = Len(batch)
          /\ delivered = [i \in 1..Len(batch) |-> Event(batch[i], i, 0)]
    /\ chan = <<>>
    /\ pc = "debounce"
    /\ deadline = debouncePeriod
    /\ now = debouncePeriod
    /\ started = 0
    /\ filenames = <<>>
    /\ paths = <<>>
    /\ running = 0
    /\ msg = ""
    /\ batches = <<>>
    /\ printed = 0
    /\ errs = 0
    /\ exited = FALSE

NextResolve ==
    \/ debounceForDeadline
    \/ runBatch
    \/ cmdRun

SpecResolve == InitResolve /\ [][NextResolve]_vars

\* changed paths with and without a package: production files of a and b, a file
\* of a directory outside the snapshot, the empty path, a bare file name, and a
\* path directly under the root
UnknownPaths ==
    { <<"/", "a", "/", "p">>, <<"/", "b", "/", "p">>, <<"/", "z", "/", "p">>,
      <<>>, <<"p">>, <<"/", "a">> }

\* as InitResolve, with the batch drawn from UnknownPaths
InitUnknown ==
    /\ pkgs \in Snapshots
    /\ \E order \in Orders(DOMAIN pkgs) : revdeps = buildRevdeps(pkgs, order)
    /\ \E batch \in UNION { [1..n -> UnknownPaths] : n \in 1..MaxBatch } :
          /\ event = Event(batch[1], 1, 0)
          /\ events = [i \in 1..(Len(batch) - 1) |-> Event(batch[i + 1], i + 1, 0)]
          /\ emitted = Len(batch)
          /\ delivered = [i \in 1..Len(batch) |-> Event(batch[i], i, 0)]
    /\ chan = <<>>
    /\ pc = "debounce"
    /\ deadline = debouncePeriod
    /\ now = debouncePeriod
    /\ started = 0
    /\ filenames = <<>>
    /\ paths = <<>>
    /\ running = 0
    /\ msg = ""
    /\ batches = <<>>
    /\ printed = 0
    /\ errs = 0
    /\ exited = FALSE

SpecUnknown == InitUnknown /\ [][NextResolve]_vars

----------------------------------------------------------------------------
(* Properties of the resolver (checked under SpecResolve) *)

\* runAllTests has resolved the last batch to paths, and either found nothing to
\* run or is waiting for `go test paths...`
Resolved ==
    /\ batches # <<>>
    /\ pc = "cmd" \/ (pc = "wait" /\ msg = "No affected tests to run")

\* the changed paths of the batch that lie in directory d / elsewhere
FilesIn(d) == SelectSeq(filenames, LAMBDA f : DirOf(f) = d)
FilesNotIn(d) == SelectSeq(filenames, LAMBDA f : DirOf(f) # d)

\* the batch holds a file of d, and nothing but files of d
OnlyDir(d) == filenames # <<>> /\ FilesNotIn(d) = <<>>

\* path is a production change of the package in d: a file of that directory that is
\* neither excluded by build constraints nor a test file
ProductionChange(d, path) ==
    /\ DirOf(path) = d
    /\ ~Contains(pkgs[d].IgnoredGoFiles, SplitFile(path))
    /\ ~IsTestFile(pkgs[d], SplitFile(path))

\* the package in d has no reverse dependents
NoDependents(d) == Lookup(revdeps, pkgs[d].ImportPath) = <<>>

\* the package in b lists the import path of the package in c among its
\* dependencies or test dependencies, and c is of b's module
DependsOn(b, c) ==
    /\ \/ Contains(pkgs[b].Deps, pkgs[c].ImportPath)
       \/ Contains(pkgs[b].TestImports, pkgs[c].ImportPath)
       \/ Contains(pkgs[b].XTestImports, pkgs[c].ImportPath)
    /\ HasPrefix(pkgs[c].ImportPath, pkgs[b].Module.Path)

\* what the resolver returns for the batch fs, whatever the order in which Go
\* ranges over byDir: the set of possible results
Resolve(fs) ==
    {runAllTestsPaths(pkgs, revdeps, fs, order) : order \in Orders(DOMAIN byDir(fs))}

\* the permutations of a slice
Perms(fs) == {[i \in 1..Len(fs) |-> fs[o[i]]] : o \in Orders(1..Len(fs))}

\* C1 (as claimed): Self-inclusion.  When the batch holds only files of Q, at least
\* one of them a production file, and Q has no reverse dependents, the result is
\* exactly {Q.ImportPath} if Q has tests and empty if it has none.
C1_SelfInclusion ==
    Resolved =>
        \A d \in DOMAIN pkgs :
            ( /\ OnlyDir(d)
              /\ NoDependents(d)
              /\ \E i \in 1..Len(filenames) : ProductionChange(d, filenames[i]) )
            => paths = IF NoTests(pkgs[d]) THEN <<>> ELSE <<pkgs[d].ImportPath>>

\* C2 (as claimed): Test-file isolation.  When Q has tests and every file of the
\* batch is a test or external-test file of Q, the result is exactly
\* {Q.ImportPath}, however many packages depend on Q.
C2_TestFileIsolation ==
    Resolved =>
        \A d \in DOMAIN pkgs :
            ( /\ OnlyDir(d)
              /\ ~NoTests(pkgs[d])
              /\ \A i \in 1..Len(filenames) : IsTestFile(pkgs[d], SplitFile(filenames[i])) )
            => paths = <<pkgs[d].ImportPath>>

\* C6: Direct dependents are selected.  If B (with tests) lists C's import path in
\* its Deps, TestImports or XTestImports and the batch holds a production change of
\* C, then B is in the result; and for a batch of files of C alone the result holds
\* nothing but C and the packages that list C themselves, so a package that reaches
\* C only through another one is left out.
C6_DirectDependents ==
    Resolved =>
        \A c \in DOMAIN pkgs :
            /\ \A b \in DOMAIN pkgs :
                  ( /\ DependsOn(b, c)
                    /\ ~NoTests(pkgs[b])
                    /\ \E i \in 1..Len(filenames) : ProductionChange(c, filenames[i]) )
                  => Contains(paths, pkgs[b].ImportPath)
            /\ OnlyDir(c) =>
                  Elems(paths) \subseteq
                      {pkgs[c].ImportPath}
                      \cup {pkgs[b].ImportPath : b \in {x \in DOMAIN pkgs : DependsOn(x, c)}}

\* C6 witness: c's tests import b, b imports a, a production file of a changed: b is
\* run, c (which has tests but does not list a) is not
C6_Witness ==
    /\ Resolved
    /\ filenames = << <<"/", "a", "/", "p">> >>
    /\ DependsOn(<<"/", "b">>, <<"/", "a">>)
    /\ DependsOn(<<"/", "c">>, <<"/", "b">>)
    /\ ~DependsOn(<<"/", "c">>, <<"/", "a">>)
    /\ ~NoTests(pkgs[<<"/", "c">>])
    /\ Contains(paths, ImpB)
    /\ ~Contains(paths, ImpC)

\* C7: No-tests filtering.  No import path of the result is that of a package with
\* neither TestGoFiles nor XTestGoFiles.
C7_NoTestsFiltering ==
    Resolved =>
        \A i \in 1..Len(paths) :
            \A d \in DOMAIN pkgs :
                pkgs[d].ImportPath = paths[i] => ~NoTests(pkgs[d])

\* C7 witness: a production file of a changed, b depends on a and has no tests, and
\* the result holds a alone
C7_Witness ==
    /\ Resolved
    /\ filenames = << <<"/", "a", "/", "p">> >>
    /\ Contains(Lookup(revdeps, ImpA), <<"/", "b">>)
    /\ NoTests(pkgs[<<"/", "b">>])
    /\ paths = <<ImpA>>

\* the batch without the files their own package excludes by build constraints
WithoutIgnored ==
    SelectSeq(filenames,
              LAMBDA f : ~(DirOf(f) \in DOMAIN pkgs
                           /\ Contains(pkgs[DirOf(f)].IgnoredGoFiles, SplitFile(f))))

C9_Distributes ==
    ( /\ Resolved
      /\ Len(filenames) = 2
      /\ DirOf(filenames[1]) # DirOf(filenames[2]) )
    => \A r1 \in Resolve(<<filenames[1]>>) :
          \A r2 \in Resolve(<<filenames[2]>>) :
              Elems(paths) = Elems(r1) \cup Elems(r2)

\* C9 witness: files of two directories, each contributing a package the other
\* does not
C9_Witness ==
    /\ Resolved
    /\ Len(filenames) = 2
    /\ DirOf(filenames[1]) # DirOf(filenames[2])
    /\ \E r1 \in Resolve(<<filenames[1]>>) :
          \E r2 \in Resolve(<<filenames[2]>>) :
              /\ Elems(r1) \ Elems(r2) # {}
              /\ Elems(r2) \ Elems(r1) # {}

\* C10: Deduplication and order independence.  paths holds no import path twice;
\* every permutation of the batch, and the batch with any of its paths repeated,
\* resolves to the same paths.
C10_DedupOrderIndependent ==
    Resolved =>
        /\ \A i, j \in 1..Len(paths) : paths[i] = paths[j] => i = j
        /\ \A fs \in Perms(filenames) : Resolve(fs) = {paths}
        /\ \A i \in 1..Len(filenames) :
              Resolve(Append(filenames, filenames[i])) = {paths}

\* C10 witness: a package with tests is reached twice (through two changed files)
\* and is handed to the executor once
C10_Witness ==
    /\ Resolved
    /\ Len(filenames) = 2
    /\ filenames[1] # filenames[2]
    /\ \E order \in Orders(DOMAIN byDir(filenames)) :
          LET toRun == RangeByDir(pkgs, revdeps, byDir(filenames), order)
          IN  \E i, j \in 1..Len(toRun) :
                 /\ i # j
                 /\ toRun[i] = toRun[j]
                 /\ Contains(paths, pkgs[toRun[i]].ImportPath)

\* C15 (as claimed): Reverse index has no self entry.  No package is listed under
\* its own import path, whatever its Deps, TestImports and XTestImports.
C15_NoSelfEntry ==
    \A d \in DOMAIN pkgs : ~Contains(Lookup(revdeps, pkgs[d].ImportPath), d)

\* the changed paths of the batch whose directory is a package of the snapshot
KnownFiles == SelectSeq(filenames, LAMBDA f : DirOf(f) \in DOMAIN pkgs)

\* C16: Unknown directories contribute nothing.  The result of a batch is that of
\* the batch without the paths whose directory is no key of the snapshot; a batch
\* of such paths alone resolves to nothing, which is reported as "No affected
\* tests to run" with the executor not started and the loop back at waiting.
C16_UnknownDirs ==
    Resolved =>
        /\ Resolve(KnownFiles) = {paths}
        /\ KnownFiles = <<>> =>
              /\ paths = <<>>
              /\ msg = "No affected tests to run"
              /\ pc = "wait"
              /\ running = 0

\* C16 witness: the empty path and a file outside the module next to a production
\* file of a package with tests and a dependent: the result is that of the file alone
C16_Witness ==
    /\ Resolved
    /\ Len(filenames) = 2
    /\ filenames[1] \in {<<>>, <<"/", "z", "/", "p">>}
    /\ DirOf(filenames[2]) \in DOMAIN pkgs
    /\ Len(paths) = 2

\* the batch restricted to the positions in I
SubBatch(I) ==
    LET sel == SelectSeq([i \in 1..Len(filenames) |-> i], LAMBDA i : i \in I)
    IN  [k \in 1..Len(sel) |-> filenames[sel[k]]]

\* C19: Monotonicity of resolution.  Every import path selected for a part of the
\* batch is selected for the whole batch: adding changed files never removes a
\* test target.
C19_Monotone ==
    Resolved =>
        \A I \in SUBSET (1..Len(filenames)) :
            \A r \in Resolve(SubBatch(I)) : Elems(r) \subseteq Elems(paths)

\* C19 witness: a test file and a production file of a package with tests and a
\* dependent with tests: the test file alone selects the package, the two together
\* select the dependent as well
C19_Witness ==
    /\ Resolved
    /\ filenames = << <<"/", "a", "/", "t">>, <<"/", "a", "/", "p">> >>
    /\ Resolve(<< <<"/", "a", "/", "t">> >>) = {<<ImpA>>}
    /\ Len(paths) >= 2

----------------------------------------------------------------------------
(* Properties of the dispatch loop (checked under Spec) *)

\* the events of a list of batches, in order
RECURSIVE Flatten(_)
Flatten(bs) == IF Len(bs) = 0 THEN <<>> ELSE Head(bs) \o Flatten(Tail(bs))

\* the step in which debounceFor returns and the batch is closed
BatchClosed == pc = "debounce" /\ pc' # "debounce"

\* C3 (as claimed): Quiet-window debounce.  A batch is not closed before a full
\* quiet window has passed since the last arrival, so events that follow each other
\* by less than a quiet window are never split over two batches.
C3_QuietWindow ==
    /\ [][BatchClosed =>
            \A i \in 1..Len(delivered) : delivered[i].at + debouncePeriod <= now]_vars
    /\ [](\A k \in 1..(Len(batches) - 1) :
            batches[k][Len(batches[k])].at + debouncePeriod <= batches[k + 1][1].at)

\* C3 (amended): the window is fixed when debounceFor is called and no arrival
\* restarts it.  The batch is closed exactly one debounce period after the call; it
\* holds the first event and every event received meanwhile, in order; no event
\* emitted before the deadline fired is left on the channel; and the deadline does
\* not move while events are collected.
C3_FixedWindow ==
    /\ [][BatchClosed =>
            /\ now = started + debouncePeriod
            /\ batches' = Append(batches, <<event>> \o events)
            /\ \A i \in 1..Len(chan) : chan[i].at = now]_vars
    /\ [][(pc = "debounce" /\ pc' = "debounce") => deadline' = deadline]_vars

\* C3 witness: three events each one tick (less than the period) after the one
\* before; the first two make one batch, the third is left for the next
C3_Witness ==
    /\ Len(batches) = 2
    /\ Len(batches[1]) = 2
    /\ batches[1][2].at = batches[1][1].at + 1
    /\ batches[2][1].at = batches[1][2].at + 1

\* C4: No event is dropped.  The batches handed to the resolver, followed by the
\* batch being collected, are exactly the events received from the channel, in
\* the order of their emission and each once; what is not yet received waits on the
\* channel in order; a batch holds at least one event; and the file names handed
\* to the resolver are those of the batch's events.
C4_NoEventDropped ==
    LET current == IF pc = "debounce" THEN <<event>> \o events ELSE <<>>
        all == delivered \o chan
    IN  /\ Flatten(batches) \o current = delivered
        /\ Len(all) = emitted
        /\ \A i \in 1..Len(all) : all[i].id = i
        /\ \A k \in 1..Len(batches) : Len(batches[k]) >= 1
        /\ Resolved => filenames = Names(batches[Len(batches)])

\* C4 witness: two events arrived while `go test` was running for a batch of one
\* (they were received later than they were emitted), and made the next batch
C4_Witness ==
    /\ Len(batches) = 2
    /\ Len(batches[1]) = 1
    /\ Len(batches[2]) = 2
    /\ batches[2][1].at < started

\* C5: Batches are processed strictly sequentially.  At most one `go test` is in
\* progress, and while the loop waits for or collects a batch none is: the first
\* event of the next batch is taken only after cmd.Run() has returned.
C5_Sequential ==
    /\ running <= 1
    /\ pc \in {"wait", "debounce", "run"} => running = 0
    /\ pc = "cmd" => running = 1

\* C5 witness: the tests of a second batch are running while a further event waits
\* on the channel
C5_Witness ==
    /\ pc = "cmd"
    /\ running = 1
    /\ Len(batches) = 2
    /\ chan # <<>>

\* C11: Debounce termination.  Every call of debounceFor returns (or the process
\* has exited on a watcher error): the loop does not stay in the collector forever
\* once the first event of a batch has been received.
C11_DebounceTerminates ==
    (pc = "debounce" /\ ~exited) ~> (pc # "debounce" \/ exited)

\* C11 witness: a burst of three events was collected and returned as one batch
C11_Witness ==
    /\ pc # "debounce"
    /\ batches # <<>>
    /\ Len(batches[Len(batches)]) = 3
    /\ ~exited

\* C13: Watch failure is fatal.  An error sent on w.Errors leads to os.Exit, in
\* whatever phase the loop is.
C13_WatchFailureFatal == (errs > 0) ~> exited

\* C13 witness: the process has exited on an error that arrived while a batch
\* was being collected
C13_Witness == exited /\ pc = "debounce" /\ events # <<>>

\* C18: debounceFor collects for a period fixed at the call.  While it collects,
\* its deadline is the time of the call plus debouncePeriod, whatever has arrived,
\* and the clock has not passed it; what it has collected are events that were
\* emitted no later than the deadline; and when it has returned, it has returned at
\* the deadline with all it collected (possibly nothing) behind the first event.
C18_FixedPeriod ==
    /\ pc = "debounce" =>
          /\ deadline = started + debouncePeriod
          /\ now <= deadline
          /\ \A i \in 1..Len(events) : events[i].at <= deadline
    /\ pc = "run" =>
          /\ now = started + debouncePeriod
          /\ batches[Len(batches)] = <<event>> \o events
          /\ \A i \in 1..Len(events) : events[i].at <= now

\* C18 witness: a call has returned two events, the second of which arrived at the
\* very tick of the deadline, later than the first
C18_Witness ==
    /\ pc = "run"
    /\ Len(events) = 2
    /\ events[1].at < events[2].at
    /\ events[2].at = deadline

Outcomes == {"No affected tests to run", "Tests passed", "Tests failed"}

\* C12: Per-batch outcome and recovery.  Every batch handed to the resolver gets
\* exactly one terminal outcome before the loop takes the next event: while the
\* loop waits or collects, the outcomes printed are as many as the batches closed,
\* and while a batch is being resolved or tested its outcome alone is missing.  An
\* empty result prints "No affected tests to run" without starting `go test`; the
\* end of a test run, passed or failed, prints its outcome, leaves the process
\* alive and puts the loop back at waiting for the next change.
C12_OutcomePerBatch ==
    /\ [](pc \in {"wait", "debounce"} => printed = Len(batches))
    /\ [](pc \in {"run", "cmd"} => printed + 1 = Len(batches))
    /\ []((pc = "wait" /\ batches # <<>>) => msg \in Outcomes)
    /\ [][(pc = "run" /\ pc' # "run" /\ paths' = <<>>) =>
            /\ msg' = "No affected tests to run"
            /\ running' = running
            /\ running = 0
            /\ pc' = "wait"]_vars
    /\ [][(pc = "run" /\ pc' # "run" /\ paths' # <<>>) => pc' = "cmd"]_vars
    /\ [][(pc = "cmd" /\ pc' # "cmd") =>
            /\ msg' \in {"Tests passed", "Tests failed"}
            /\ printed' = printed + 1
            /\ pc' = "wait"
            /\ ~exited']_vars

\* C12 witness: the tests of the first batch failed, and the loop has taken the
\* first event of the next batch and is collecting
C12_Witness ==
    /\ pc = "debounce"
    /\ Len(batches) = 1
    /\ msg = "Tests failed"
    /\ printed = 1
    /\ ~exited

\* C14 (as claimed): No cancellation mid-run.  There is no reachable state in which
\* the process has stopped while a dispatched test run is still in progress.
C14_NoStopMidRun == exited => running = 0

\* C14 (amended): the loop never cancels or overtakes a test run.  A run is in
\* progress exactly while the loop is in cmd.Run(); while it is, the loop takes no
\* event, closes no batch and resolves nothing; the run ends only by cmd.Run()
\* returning, with the outcome printed and the loop back at waiting; and the
\* process stops during a run only by os.Exit of the goroutine that received a
\* watcher error.
C14_LoopWaitsForRun ==
    /\ [](running = 1 <=> pc = "cmd")
    /\ [][(running = 1 /\ running' = 1) =>
            /\ pc' = pc
            /\ delivered' = delivered
            /\ batches' = batches
            /\ paths' = paths
            /\ printed' = printed]_vars
    /\ [][(running = 1 /\ running' # 1) =>
            /\ ~exited'
            /\ pc' = "wait"
            /\ msg' \in {"Tests passed", "Tests failed"}]_vars
    /\ [][(running = 1 /\ ~exited /\ exited') => (errs > 0 /\ running' = 1)]_vars

\* C14 witness: the error goroutine has ended the process while `go test` was
\* running and a further event was waiting on the channel
C14_Witness ==
    /\ exited
    /\ running = 1
    /\ pc = "cmd"
    /\ chan # <<>>

====
